---- MODULE Spec2Model ----
(***************************************************************************)
(* Corporate bond dashboard: the panel merge (compute_series.py), the      *)
(* derived metrics, the recession interval extraction and the trailing     *)
(* window summary table (charts.py, streamlit_app.py).                      *)
(*                                                                         *)
(* Representation.                                                         *)
(*   - A date is an integer yyyymmdd (integer order = calendar order);      *)
(*     NaT is pandas' "not a time".                                        *)
(*   - A number is an integer count of thousandths (1.00 is 1000); NaN is   *)
(*     the missing value.  Arithmetic is exact: binary floating point       *)
(*     residue is outside the model.                                        *)
(*   - A DataFrame is [index, columns, data]: the row labels, the column    *)
(*     names in order, and for each column name its values by row.          *)
(*   - A call that may raise returns [exc, val]; exc = "" means it returned.*)
(***************************************************************************)
EXTENDS Integers, Sequences, FiniteSets, TLC

VARIABLES
    raw,        \* data/raw: series id -> the latest CSV file of that series
    pc,         \* how far the pipeline has run
    merged,     \* the DataFrame merge_all returned
    enriched,   \* the DataFrame add_derived returned
    spans,      \* what recession_spans returned
    table,      \* what charts.build_current_table returned
    view,       \* the dashboard: its inputs and what it drew
    exc         \* the exception that ended the run, "" if none

vars == <<raw, pc, merged, enriched, spans, table, view, exc>>

----------------------------------------------------------------------------
(* Values *)

NaN == -1000000
NaT == 0

Range(s) == {s[i] : i \in DOMAIN s}

Max(S) == CHOOSE x \in S : \A y \in S : y <= x
Min(S) == CHOOSE x \in S : \A y \in S : x <= y

EmptyDF == [index |-> <<>>, columns |-> <<>>, data |-> <<>>]

Returned(v) == [exc |-> "", val |-> v]
Raised(e)   == [exc |-> e, val |-> EmptyDF]

----------------------------------------------------------------------------
(* compute_series.py *)

SERIES == <<
    [sid |-> "BAMLC0A0CM",   col |-> "IG_OAS"],
    [sid |-> "BAMLH0A0HYM2", col |-> "HY_OAS"],
    [sid |-> "BAA",          col |-> "BAA_YIELD"],
    [sid |-> "DGS10",        col |-> "DGS10"],
    [sid |-> "DGS2",         col |-> "DGS2"],
    [sid |-> "DGS5",         col |-> "DGS5"],
    [sid |-> "USREC",        col |-> "USREC"],
    [sid |-> "BAMLC0A1CAAA", col |-> "AAA_OAS"],
    [sid |-> "BAMLC0A2CAA",  col |-> "AA_OAS"],
    [sid |-> "BAMLC0A3CA",   col |-> "A_OAS"],
    [sid |-> "BAMLC0A4CBBB", col |-> "BBB_OAS"] >>

Sids == {SERIES[i].sid : i \in DOMAIN SERIES}

\* A file of data/raw: kind "nofile" (no directory, or no CSV in it),
\* "unparseable" (a file pandas cannot read as a table: empty, ragged), or
\* "csv" with a header line and rows of text tokens.
NoFile == [kind |-> "nofile", header |-> <<>>, rows |-> <<>>]
BadFile == [kind |-> "unparseable", header |-> <<>>, rows |-> <<>>]

\* latest_csv_for: the newest file of the series, None when there is none.
latest_csv_for(series_id) == raw[series_id]

\* pd.read_csv: raises on a file that holds no table.
read_csv(path) ==
    IF path.kind = "unparseable"
    THEN Raised("EmptyDataError")
    ELSE Returned([columns |-> path.header, rows |-> path.rows])

\* pd.to_datetime(errors="coerce") on one token: the date it spells, NaT for
\* anything else.
to_datetime(tok) ==
    CASE tok = "2023-02-09" -> 20230209
      [] tok = "2023-03-14" -> 20230314
      [] tok = "2023-03-15" -> 20230315
      [] tok = "2024-03-05" -> 20240305
      [] tok = "2024-03-15" -> 20240315
      [] OTHER -> NaT

\* pd.to_numeric(errors="coerce") on one token: the number it spells (in
\* thousandths), NaN for anything else ("." is FRED's placeholder).
to_numeric(tok) ==
    CASE tok = "0.00" -> 0
      [] tok = "1.00" -> 1000
      [] tok = "2.00" -> 2000
      [] tok = "3.00" -> 3000
      [] tok = "5.00" -> 5000
      [] tok = "7.00" -> 7000
      [] tok = "1.234" -> 1234
      [] OTHER -> NaN

\* Index order of sort_index: ascending, NaT after every date
\* (na_position="last"); a comparison with NaT is false.
Before(a, b) == a # NaT /\ (b = NaT \/ a < b)

RECURSIVE InsertSorted(_, _, _)
\* r goes after every row that does not come after it (the sort is stable).
InsertSorted(sorted, r, key) ==
    IF sorted = <<>> THEN <<r>>
    ELSE IF Before(key, sorted[Len(sorted)][1])
         THEN Append(InsertSorted(SubSeq(sorted, 1, Len(sorted) - 1), r, key),
                     sorted[Len(sorted)])
         ELSE Append(sorted, r)

RECURSIVE SortRows(_)
\* rows are <<label, ...>>; sorted by label.
SortRows(rows) ==
    IF rows = <<>> THEN <<>>
    ELSE LET n == Len(rows)
         IN  InsertSorted(SortRows(SubSeq(rows, 1, n - 1)), rows[n], rows[n][1])

\* DataFrame.sort_index
sort_index(df) ==
    LET n == Len(df.index)
        perm == SortRows([i \in 1..n |-> <<df.index[i], i>>])
    IN  [index   |-> [i \in 1..n |-> perm[i][1]],
         columns |-> df.columns,
         data    |-> [c \in DOMAIN df.data |->
                        [i \in 1..n |-> df.data[c][perm[i][2]]]]]

IndexOf(s, x) == Min({i \in DOMAIN s : s[i] = x})

DateColCandidates == <<"DATE", "date", "observation_date">>

\* load_series: [exc, none, val]; none = TRUE is Python's None.
RetNone == [exc |-> "", none |-> TRUE, val |-> EmptyDF]

load_series(series) ==
    LET path == latest_csv_for(series.sid)
    IN
    IF path.kind = "nofile" THEN RetNone
    ELSE
    LET r == read_csv(path)
    IN
    IF r.exc # "" THEN [exc |-> r.exc, none |-> FALSE, val |-> EmptyDF]
    ELSE
    LET df == r.val
        found == SelectSeq(DateColCandidates, LAMBDA c : c \in Range(df.columns))
        date_col == IF found # <<>> THEN found[1] ELSE df.columns[1]
        value_col_candidates == SelectSeq(df.columns, LAMBDA c : c # date_col)
    IN
    IF value_col_candidates = <<>> THEN RetNone
    ELSE
    LET value_col == value_col_candidates[1]
        di == IndexOf(df.columns, date_col)
        vi == IndexOf(df.columns, value_col)
        n  == Len(df.rows)
        \* to_datetime on the date column, set_index("DATE")
        indexed == [index   |-> [i \in 1..n |-> to_datetime(df.rows[i][di])],
                    columns |-> <<series.col>>,
                    data    |-> [c \in {series.col} |->
                                   [i \in 1..n |-> df.rows[i][vi]]]]
        sorted == sort_index(indexed)
    IN  [exc |-> "", none |-> FALSE,
         val |-> [sorted EXCEPT !.data =
                    [c \in {series.col} |->
                       [i \in 1..n |-> to_numeric(sorted.data[c][i])]]]]

Count(s, x) == Cardinality({i \in DOMAIN s : s[i] = x})

has_duplicates(idx) == \E i, j \in DOMAIN idx : i # j /\ idx[i] = idx[j]

Repeat(x, n) == [i \in 1..n |-> x]

RECURSIVE OrderedUnion(_, _)
\* The labels of keys in index order, each as often as the frame that holds
\* it most often (Index.union keeps duplicates).
OrderedUnion(keys, frames) ==
    IF keys = {} THEN <<>>
    ELSE LET k == CHOOSE x \in keys : \A y \in keys \ {x} : Before(x, y)
             m == Max({Count(frames[f].index, k) : f \in DOMAIN frames})
         IN  Repeat(k, m) \o OrderedUnion(keys \ {k}, frames)

\* A left join: the index of the first frame alone.
first_index(frames) == frames[1].index

\* The outer-join index of pd.concat(axis=1).
union_indexes(frames) ==
    OrderedUnion(UNION {Range(frames[f].index) : f \in DOMAIN frames}, frames)

\* Index.get_indexer + take: the frame's column laid out on new_labels, NaN
\* where the frame has no such label.
reindex_column(frame, c, new_labels) ==
    [p \in DOMAIN new_labels |->
        IF \E i \in DOMAIN frame.index : frame.index[i] = new_labels[p]
        THEN frame.data[c][IndexOf(frame.index, new_labels[p])]
        ELSE NaN]

\* pd.concat(frames, axis=1): every frame laid out on the union of the
\* indexes.  A frame whose index differs from the union is reindexed, which
\* pandas refuses (InvalidIndexError) when that frame's index has duplicates.
concat(frames) ==
    LET new_labels == union_indexes(frames)
        must_reindex(f) == frames[f].index # new_labels
        owner(c) == CHOOSE f \in DOMAIN frames : c \in Range(frames[f].columns)
        RECURSIVE Columns(_)
        Columns(f) == IF f = 0 THEN <<>> ELSE Columns(f - 1) \o frames[f].columns
        cols == Columns(Len(frames))
    IN
    IF \E f \in DOMAIN frames : must_reindex(f) /\ has_duplicates(frames[f].index)
    THEN Raised("InvalidIndexError")
    ELSE Returned(
           [index   |-> new_labels,
            columns |-> cols,
            data    |-> [c \in Range(cols) |->
                           IF must_reindex(owner(c))
                           THEN reindex_column(frames[owner(c)], c, new_labels)
                           ELSE frames[owner(c)].data[c]]])

\* ffill left out: every value stays as the join left it.
no_fill_column(s) == s

RECURSIVE ffill_column(_)
\* Series.ffill: a missing value takes the last value before it, if any.
ffill_column(s) ==
    IF s = <<>> THEN <<>>
    ELSE LET n == Len(s)
             prev == ffill_column(SubSeq(s, 1, n - 1))
         IN  Append(prev, IF s[n] # NaN \/ n = 1 THEN s[n] ELSE prev[n - 1])

ffill(df) == [df EXCEPT !.data = [c \in DOMAIN df.data |-> ffill_column(df.data[c])]]

RECURSIVE load_frames(_)
\* The loop of merge_all over SERIES[1..k]: [exc, val], val the frames so
\* far; the first load_series that raises ends the loop.
load_frames(k) ==
    IF k = 0 THEN [exc |-> "", val |-> <<>>]
    ELSE LET before == load_frames(k - 1)
         IN  IF before.exc # "" THEN before
             ELSE LET df == load_series(SERIES[k])
                  IN  IF df.exc # "" THEN [exc |-> df.exc, val |-> <<>>]
                      ELSE IF df.none THEN before
                      ELSE [exc |-> "", val |-> Append(before.val, df.val)]

merge_all ==
    LET loaded == load_frames(Len(SERIES))
        frames == loaded.val
    IN
    IF loaded.exc # "" THEN Raised(loaded.exc)
    ELSE IF frames = <<>> THEN Raised("RuntimeError")
    ELSE LET joined == concat(frames)
         IN  IF joined.exc # "" THEN joined
             ELSE Returned(ffill(sort_index(joined.val)))

\* a - b on floats: missing when either side is.
Minus(a, b) == IF a = NaN \/ b = NaN THEN NaN ELSE a - b

\* out[name] = vals: a new column goes last, an existing one is overwritten.
set_column(df, name, vals) ==
    [index   |-> df.index,
     columns |-> IF name \in Range(df.columns) THEN df.columns
                 ELSE Append(df.columns, name),
     data    |-> [c \in Range(df.columns) \cup {name} |->
                    IF c = name THEN vals ELSE df.data[c]]]

\* out[a] - out[b], row by row.
column_difference(df, a, b) ==
    [i \in DOMAIN df.index |-> Minus(df.data[a][i], df.data[b][i])]

window == 90
\* A thirtieth of the window instead of a third.
min_periods_low == window \div 30
min_periods == window \div 3

RECURSIVE WindowStats(_, _, _)
\* <<count, sum, sum of squares>> of the non-missing values of s[lo..hi].
WindowStats(s, lo, hi) ==
    IF lo > hi THEN <<0, 0, 0>>
    ELSE IF lo = hi
    THEN IF s[lo] = NaN THEN <<0, 0, 0>> ELSE <<1, s[lo], s[lo] * s[lo]>>
    ELSE LET mid == (lo + hi) \div 2
             l == WindowStats(s, lo, mid)
             r == WindowStats(s, mid + 1, hi)
         IN  <<l[1] + r[1], l[2] + r[2], l[3] + r[3]>>

\* The trailing window of `window` rows ending at and including row i.
rolling(s, i) == WindowStats(s, IF i > window THEN i - window + 1 ELSE 1, i)

\* Rolling.mean at row i, the fraction num/den; missing below min_periods.
rolling_mean(s, i) ==
    LET t == rolling(s, i)
    IN  IF t[1] < min_periods \/ t[1] = 0
        THEN [nan |-> TRUE, num |-> 0, den |-> 1]
        ELSE [nan |-> FALSE, num |-> t[2], den |-> t[1]]

\* Rolling.std(ddof=0) at row i, as its square num/den (the population
\* variance: divisor N); missing below min_periods.
rolling_std(s, i) ==
    LET t == rolling(s, i)
    IN  IF t[1] < min_periods \/ t[1] = 0
        THEN [nan |-> TRUE, num |-> 0, den |-> 1]
        ELSE [nan |-> FALSE, num |-> t[1] * t[3] - t[2] * t[2], den |-> t[1] * t[1]]

Sign(x) == IF x > 0 THEN 1 ELSE IF x < 0 THEN -1 ELSE 0

\* A z-score cell: kind "nan" (missing), "inf" (sign * infinity), or "num",
\* the number (num/den) / sqrt(vnum/vden).
ZCell(kind, num, den, vnum, vden) ==
    [kind |-> kind, num |-> num, den |-> den, vnum |-> vnum, vden |-> vden]
ZNaN == ZCell("nan", 0, 1, 0, 1)

\* (x - mean) / std in IEEE arithmetic: 0/0 is NaN, nonzero/0 is infinite.
zscore(x, mean, std) ==
    IF x = NaN \/ mean.nan \/ std.nan THEN ZNaN
    ELSE LET dev == x * mean.den - mean.num       \* (x - mean) * mean.den
         IN  IF std.num = 0
             THEN IF dev = 0 THEN ZNaN ELSE ZCell("inf", Sign(dev), 1, 0, 1)
             ELSE ZCell("num", dev, mean.den, std.num, std.den)

zscore_column(s) ==
    [i \in DOMAIN s |-> zscore(s[i], rolling_mean(s, i), rolling_std(s, i))]

ZName(c) ==
    CASE c = "IG_OAS" -> "IG_OAS_Z90"
      [] c = "HY_OAS" -> "HY_OAS_Z90"
      [] c = "HY_IG_SPREAD" -> "HY_IG_SPREAD_Z90"
      [] c = "BAA_10Y_SPREAD" -> "BAA_10Y_SPREAD_Z90"
      [] c = "TWOS_TENS" -> "TWOS_TENS_Z90"

ZWhitelist == <<"IG_OAS", "HY_OAS", "HY_IG_SPREAD", "BAA_10Y_SPREAD", "TWOS_TENS">>

\* The guard looks at the first input only: out[b] raises on an absent b.
derive_first_input_only(out, name, a, b) ==
    IF a \in Range(out.columns)
    THEN IF b \in Range(out.columns)
         THEN Returned(set_column(out, name, column_difference(out, a, b)))
         ELSE Raised("KeyError")
    ELSE Returned(out)

\* One arithmetic derived column: added when both inputs are columns
\* (out[a] on an absent column would raise KeyError).
derive(out, name, a, b) ==
    IF {a, b} \subseteq Range(out.columns)
    THEN Returned(set_column(out, name, column_difference(out, a, b)))
    ELSE Returned(out)

RECURSIVE add_zscores(_, _)
\* The loop over cols_for_z[1..k].
add_zscores(out, cols) ==
    IF cols = <<>> THEN out
    ELSE LET k == Len(cols)
             before == add_zscores(out, SubSeq(cols, 1, k - 1))
         IN  set_column(before, ZName(cols[k]), zscore_column(before.data[cols[k]]))

add_derived(df) ==
    LET r1 == derive(df, "HY_IG_SPREAD", "HY_OAS", "IG_OAS")
        r2 == IF r1.exc # "" THEN r1
              ELSE derive(r1.val, "BAA_10Y_SPREAD", "BAA_YIELD", "DGS10")
        r3 == IF r2.exc # "" THEN r2
              ELSE derive(r2.val, "TWOS_TENS", "DGS10", "DGS2")
        cols_for_z == SelectSeq(ZWhitelist, LAMBDA c : c \in Range(r3.val.columns))
    IN  IF r3.exc # "" THEN r3
        ELSE Returned(add_zscores(r3.val, cols_for_z))

----------------------------------------------------------------------------
(* charts.py *)

Year(d)     == d \div 10000
MonthDay(d) == d % 10000
IsLeap(y)   == (y % 4 = 0 /\ y % 100 # 0) \/ y % 400 = 0

\* d - pd.DateOffset(years=n): the same month and day n years earlier, 29
\* February clipped to the 28th in a common year; NaT stays NaT.
minus_years(d, n) ==
    IF d = NaT THEN NaT
    ELSE IF MonthDay(d) = 229 /\ ~IsLeap(Year(d) - n)
         THEN (Year(d) - n) * 10000 + 228
         ELSE d - n * 10000

\* DatetimeIndex.max(): NaT is skipped; NaT when no date is left.
index_max(idx) ==
    IF Range(idx) \ {NaT} = {} THEN NaT ELSE Max(Range(idx) \ {NaT})

\* df.loc[mask]: the rows at the positions kept, in order.
take_rows(df, keep) ==
    LET pos == SelectSeq([i \in DOMAIN df.index |-> i], LAMBDA i : i \in keep)
    IN  [index   |-> [k \in DOMAIN pos |-> df.index[pos[k]]],
         columns |-> df.columns,
         data    |-> [c \in DOMAIN df.data |->
                        [k \in DOMAIN pos |-> df.data[c][pos[k]]]]]

\* df.loc[df.index >= start]; a comparison with NaT is false.
rows_since(df, start) ==
    take_rows(df, {i \in DOMAIN df.index :
                      df.index[i] # NaT /\ start # NaT /\ df.index[i] >= start})

\* The rows of the last `years` years: end = df.index.max().
trailing_window(df, years) ==
    rows_since(df, minus_years(index_max(df.index), years))

Threshold == 500    \* 0.5

\* No dropna: every row is an item, missing or not.
keep_all_items(df, c) == [i \in DOMAIN df.index |-> <<df.index[i], df.data[c][i]>>]

\* Series.dropna() as <<date, value>> items.
dropna_items(df, c) ==
    LET pos == SelectSeq([i \in DOMAIN df.index |-> i],
                         LAMBDA i : df.data[c][i] # NaN)
    IN  [k \in DOMAIN pos |-> <<df.index[pos[k]], df.data[c][pos[k]]>>]

\* (rec > 0.5).astype(int); NaN > 0.5 is false.
active(v) == IF v # NaN /\ v > Threshold THEN 1 ELSE 0

RECURSIVE spans_loop(_, _)
\* The loop over rec.items() after its first k items: start is <<>> for
\* None, <<dt>> for a date.
spans_loop(rec, k) ==
    IF k = 0 THEN [in_rec |-> FALSE, start |-> <<>>, spans |-> <<>>]
    ELSE LET st  == spans_loop(rec, k - 1)
             dt  == rec[k][1]
             val == active(rec[k][2])
         IN  IF val = 1 /\ ~st.in_rec
             THEN [in_rec |-> TRUE, start |-> <<dt>>, spans |-> st.spans]
             ELSE IF val = 0 /\ st.in_rec
             THEN [in_rec |-> FALSE, start |-> st.start,
                   spans |-> Append(st.spans, <<st.start[1], dt>>)]
             ELSE st

\* The loop alone: an interval still open at the last item is lost.
spans_of_closed_only(rec) == spans_loop(rec, Len(rec)).spans

\* The loop, then the interval still open at the last item.
spans_of(rec) ==
    LET st == spans_loop(rec, Len(rec))
    IN  IF st.in_rec /\ st.start # <<>>
        THEN Append(st.spans, <<st.start[1], rec[Len(rec)][1]>>)
        ELSE st.spans

recession_spans(df) ==
    IF "USREC" \notin Range(df.columns) THEN <<>>
    ELSE spans_of(dropna_items(df, "USREC"))

\* plot_oas_window: the intervals shaded on the chart of the last `years`.
plot_oas_window(df, years) == recession_spans(trailing_window(df, years))

\* round(x, 2) on thousandths: to the nearest hundredth, a tie to the even
\* one.
round2(v) ==
    LET q == v \div 10
        r == v % 10
    IN  IF r < 5 THEN q * 10
        ELSE IF r > 5 THEN (q + 1) * 10
        ELSE IF q % 2 = 0 THEN q * 10 ELSE (q + 1) * 10

\* Series.max() / Series.min(): NaN is skipped; NaN when nothing is left.
series_max(s) == IF Range(s) \ {NaN} = {} THEN NaN ELSE Max(Range(s) \ {NaN})
series_min(s) == IF Range(s) \ {NaN} = {} THEN NaN ELSE Min(Range(s) \ {NaN})

\* round(x, 2) if pd.notna(x) else None
shown(x) == IF x # NaN THEN round2(x) ELSE NaN

RECURSIVE table_rows(_, _, _)
\* The loop over metrics[1..k]: [exc, val]; df[col].iloc[-1] raises
\* IndexError on a table without rows.
table_rows(df, sub, metrics) ==
    IF metrics = <<>> THEN [exc |-> "", val |-> <<>>]
    ELSE LET k == Len(metrics)
             before == table_rows(df, sub, SubSeq(metrics, 1, k - 1))
             col == metrics[k][1]
         IN  IF before.exc # "" THEN before
             ELSE IF col \notin Range(df.columns) THEN before
             ELSE IF df.index = <<>> THEN [exc |-> "IndexError", val |-> <<>>]
             ELSE LET cur == df.data[col][Len(df.index)]
                      yr  == sub.data[col]
                  IN  [exc |-> "",
                       val |-> Append(before.val,
                                 [Metric  |-> metrics[k][2],
                                  Current |-> shown(cur),
                                  High    |-> shown(series_max(yr)),
                                  Low     |-> shown(series_min(yr))])]

ChartMetrics == <<
    <<"HY_OAS", "HY OAS">>, <<"IG_OAS", "IG OAS">>, <<"HY_IG_SPREAD", "HY - IG">>,
    <<"BAA_10Y_SPREAD", "Baa - 10y">>, <<"TWOS_TENS", "2s10s">> >>

\* charts.build_current_table
build_current_table(df) ==
    table_rows(df, trailing_window(df, 1), ChartMetrics)

----------------------------------------------------------------------------
(* streamlit_app.py *)

AppMetrics == ChartMetrics \o <<
    <<"AAA_OAS", "AAA OAS">>, <<"AA_OAS", "AA OAS">>,
    <<"A_OAS", "A OAS">>, <<"BBB_OAS", "BBB OAS">> >>

\* streamlit_app.build_current_table
app_build_current_table(df) ==
    table_rows(df, trailing_window(df, 1), AppMetrics)

RangeLabels == {"1Y", "3Y", "5Y", "20Y"}
RangeYears(range_label) ==
    CASE range_label = "1Y" -> 1
      [] range_label = "3Y" -> 3
      [] range_label = "5Y" -> 5
      [] range_label = "20Y" -> 20

subset_by_range(df, range_label) == trailing_window(df, RangeYears(range_label))

\* The columns convert_units picks: a name holding "OAS", "SPREAD", "DGS" or
\* "BAA_YIELD" and not ending in "USREC" (the z-score columns of such a
\* column hold its name).
UnitColumns ==
    {"IG_OAS", "HY_OAS", "AAA_OAS", "AA_OAS", "A_OAS", "BBB_OAS",
     "BAA_YIELD", "DGS10", "DGS2", "DGS5", "HY_IG_SPREAD", "BAA_10Y_SPREAD",
     "IG_OAS_Z90", "HY_OAS_Z90", "HY_IG_SPREAD_Z90", "BAA_10Y_SPREAD_Z90"}

ZNames == {"IG_OAS_Z90", "HY_OAS_Z90", "HY_IG_SPREAD_Z90",
           "BAA_10Y_SPREAD_Z90", "TWOS_TENS_Z90"}

\* x * 100.0
times100(c, x) ==
    IF c \in ZNames
    THEN IF x.kind = "num" THEN [x EXCEPT !.num = 100 * x.num] ELSE x
    ELSE IF x = NaN THEN NaN ELSE 100 * x

convert_units(df, unit) ==
    IF unit = "Percent" THEN df
    ELSE [df EXCEPT !.data =
            [c \in DOMAIN df.data |->
               IF c \in UnitColumns
               THEN [i \in DOMAIN df.data[c] |-> times100(c, df.data[c][i])]
               ELSE df.data[c]]]

\* Every row, a missing value read as an active one.
missing_as_active_items(df, c) ==
    [i \in DOMAIN df.index |->
        <<df.index[i], IF df.data[c][i] = NaN THEN 1000 ELSE df.data[c][i]>>]

\* rec.items() of the dashboard's shading loop: every row, missing or not.
all_items(df, c) == [i \in DOMAIN df.index |-> <<df.index[i], df.data[c][i]>>]

\* The dashboard's inline shading loop: the same loop, no dropna.
app_shading(sub) ==
    IF "USREC" \notin Range(sub.columns) THEN <<>>
    ELSE spans_of(all_items(sub, "USREC"))

\* The table in the unit on display.
table_in_unit(t, unit) ==
    IF unit # "bps" THEN t
    ELSE [k \in DOMAIN t |->
            [Metric  |-> t[k].Metric,
             Current |-> times100("", t[k].Current),
             High    |-> times100("", t[k].High),
             Low     |-> times100("", t[k].Low)]]

----------------------------------------------------------------------------
(* The files the pipeline may find under data/raw *)

MaxBad == 1     \* rows with an unparsable date in one file

RawDateToks == <<"2023-02-09", "2024-03-05", "2024-03-15">>
BadDateTok == "not-a-date"

\* The value a file gives on its k-th date, and on a row with a bad date.
ValueTok(sid, k) ==
    IF sid = "BAMLC0A0CM" THEN <<"1.00", "3.00", "5.00">>[k]
    ELSE <<"5.00", "5.00", "2.00">>[k]
BadRowValueTok == "7.00"

Layouts == {"date_first", "value_first", "unnamed_date"}

Header(layout, sid) ==
    CASE layout = "date_first"   -> <<"observation_date", sid>>
      [] layout = "value_first"  -> <<sid, "DATE">>
      [] layout = "unnamed_date" -> <<"Date", sid>>

Row(layout, d, v) == IF layout = "value_first" THEN <<v, d>> ELSE <<d, v>>

RECURSIVE DatedRows(_, _, _, _)
\* Newest first, as an unsorted file may be.
DatedRows(layout, sid, pick, k) ==
    IF k > Len(RawDateToks) THEN <<>>
    ELSE DatedRows(layout, sid, pick, k + 1) \o
         (CASE pick[k] = "absent" -> <<>>
            [] pick[k] = "value"  -> <<Row(layout, RawDateToks[k], ValueTok(sid, k))>>
            [] pick[k] = "dot"    -> <<Row(layout, RawDateToks[k], ".")>>)

CsvFile(layout, sid, pick, nbad) ==
    [kind   |-> "csv",
     header |-> Header(layout, sid),
     rows   |-> Repeat(Row(layout, BadDateTok, BadRowValueTok), nbad)
                \o DatedRows(layout, sid, pick, 1)]

OneColumnFile == [kind |-> "csv", header |-> <<"observation_date">>,
                  rows |-> <<<<"2024-03-15">>>>]

Files(layout, sid) ==
    {NoFile, BadFile, OneColumnFile} \cup
    {CsvFile(layout, sid, pick, nbad) :
        pick \in [1..Len(RawDateToks) -> {"absent", "value", "dot"}],
        nbad \in 0..MaxBad}

----------------------------------------------------------------------------
(* The pipeline: compute_series.main, then charts.main *)

\* The raw directory: the two modelled series have the files given, every
\* other series has none.
RawDir(ig, hy) ==
    [s \in Sids |-> IF s = "BAMLC0A0CM" THEN ig
                    ELSE IF s = "BAMLH0A0HYM2" THEN hy ELSE NoFile]

\* The dashboard before it has drawn anything.
NoView ==
    [range_label |-> "", unit |-> "", shade_recessions |-> FALSE,
     sub_units |-> EmptyDF, shaded |-> <<>>, table |-> <<>>]

Init ==
    /\ \E layout \in Layouts :
          \E ig \in Files(layout, "BAMLC0A0CM"), hy \in Files(layout, "BAMLH0A0HYM2") :
             raw = RawDir(ig, hy)
    /\ pc = "start"
    /\ merged = EmptyDF
    /\ enriched = EmptyDF
    /\ spans = [y5 |-> <<>>, y20 |-> <<>>]
    /\ table = <<>>
    /\ view = NoView
    /\ exc = ""

\* compute_series.main, first line.
MergeAll ==
    /\ pc = "start"
    /\ LET r == merge_all
       IN  IF r.exc # ""
           THEN /\ pc' = "failed"
                /\ exc' = r.exc
                /\ merged' = merged
           ELSE /\ pc' = "merged"
                /\ exc' = exc
                /\ merged' = r.val
    /\ UNCHANGED <<raw, enriched, spans, table, view>>

\* compute_series.main, second line (and streamlit_app.ensure_data).
AddDerived ==
    /\ pc = "merged"
    /\ LET r == add_derived(merged)
       IN  IF r.exc # ""
           THEN /\ pc' = "failed"
                /\ exc' = r.exc
                /\ enriched' = enriched
           ELSE /\ pc' = "derived"
                /\ exc' = exc
                /\ enriched' = r.val
    /\ UNCHANGED <<raw, merged, spans, table, view>>

\* charts.main: the two charts' shading, then the table.
ChartsMain ==
    /\ pc = "derived"
    /\ LET t == build_current_table(enriched)
       IN  /\ spans' = [y5  |-> plot_oas_window(enriched, 5),
                        y20 |-> plot_oas_window(enriched, 20)]
           /\ IF t.exc # ""
              THEN /\ pc' = "failed"
                   /\ exc' = t.exc
                   /\ table' = table
              ELSE /\ pc' = "charted"
                   /\ exc' = exc
                   /\ table' = t.val
    /\ UNCHANGED <<raw, merged, enriched, view>>

\* streamlit_app.main on the data ensure_data returns, for one choice of the
\* sidebar's inputs.
Dashboard ==
    /\ pc = "derived"
    /\ \E range_label \in RangeLabels, unit \in {"Percent", "bps"},
          checkbox \in BOOLEAN :
          LET df == enriched
              shade_recessions == "USREC" \in Range(df.columns) /\ checkbox
              sub == subset_by_range(df, range_label)
              sub_units == convert_units(sub, unit)
              t == app_build_current_table(df)
          IN  IF t.exc # ""
              THEN /\ pc' = "failed"
                   /\ exc' = t.exc
                   /\ view' = view
              ELSE /\ pc' = "shown"
                   /\ exc' = exc
                   /\ view' = [range_label |-> range_label,
                               unit |-> unit,
                               shade_recessions |-> shade_recessions,
                               sub_units |-> sub_units,
                               shaded |-> IF shade_recessions
                                          THEN app_shading(sub) ELSE <<>>,
                               table |-> table_in_unit(t.val, unit)]
    /\ UNCHANGED <<raw, merged, enriched, spans, table>>

Next == MergeAll \/ AddDerived \/ ChartsMain \/ Dashboard

Spec == Init /\ [][Next]_vars

----------------------------------------------------------------------------
(* add_derived on its own: the panels handed to it *)

MaxShort == 2     \* rows of a short panel
LongLen == 92     \* rows of a long panel (the window is 90 rows)

DerivedInputs == <<"HY_OAS", "IG_OAS", "BAA_YIELD", "DGS10", "DGS2">>

\* Row i is the i-th day after 1 March 2024.
DayIndex(n) == [i \in 1..n |-> 20240300 + i]

\* A short panel: any of the five input columns; a column starts on the
\* first row or, when late, is missing there (a forward-filled panel is
\* missing only before a column's first observation).
ShortValue(c, i) ==
    (CASE c = "HY_OAS" -> 400 [] c = "IG_OAS" -> 100 [] c = "BAA_YIELD" -> 600
       [] c = "DGS10" -> 430 [] c = "DGS2" -> 470) + 7 * i * i

ShortPanel(present, late, n) ==
    [index   |-> DayIndex(n),
     columns |-> SelectSeq(DerivedInputs, LAMBDA c : c \in present),
     data    |-> [c \in present |->
                    [i \in 1..n |-> IF c \in late /\ i = 1 THEN NaN
                                    ELSE ShortValue(c, i)]]]

\* A long column: lead missing rows, then first rows of one value, then
\* another value to the end.
LongColumn(lead, first, v) ==
    [i \in 1..LongLen |-> IF i <= lead THEN NaN
                          ELSE IF i <= lead + first THEN 10 ELSE v]

LongShapes == {0, LongLen - 31, LongLen - 30} \X {0, 1, 30} \X {10, 30}

\* A long panel: IG_OAS alone or with HY_OAS.
LongPanel(ig, hy, both) ==
    [index   |-> DayIndex(LongLen),
     columns |-> IF both THEN <<"IG_OAS", "HY_OAS">> ELSE <<"IG_OAS">>,
     data    |-> [c \in (IF both THEN {"IG_OAS", "HY_OAS"} ELSE {"IG_OAS"}) |->
                    IF c = "IG_OAS" THEN LongColumn(ig[1], ig[2], ig[3])
                    ELSE LongColumn(hy[1], hy[2], hy[3])]]

InitDerive ==
    /\ raw = [s \in Sids |-> NoFile]
    /\ pc = "merged"
    /\ \/ \E present \in SUBSET Range(DerivedInputs) :
             \E late \in SUBSET present, n \in 1..MaxShort :
                merged = ShortPanel(present, late, n)
       \/ \E ig \in LongShapes, hy \in LongShapes, both \in BOOLEAN :
             merged = LongPanel(ig, hy, both)
    /\ enriched = EmptyDF
    /\ spans = [y5 |-> <<>>, y20 |-> <<>>]
    /\ table = <<>>
    /\ view = NoView
    /\ exc = ""

NextDerive == AddDerived \/ ChartsMain

SpecDerive == InitDerive /\ [][NextDerive]_vars

----------------------------------------------------------------------------
(* charts.main on its own: the processed table charts.load reads *)

MaxObs == 8       \* rows of the processed table

\* A recession indicator: on each row missing, inactive or active; the
\* inactive level is 0 or the threshold itself.
IndicatorTable(usrec) ==
    [index   |-> DayIndex(Len(usrec)),
     columns |-> <<"USREC">>,
     data    |-> [c \in {"USREC"} |-> usrec]]

\* The same rows without the indicator column.
PlainTable(n) ==
    [index   |-> DayIndex(n),
     columns |-> <<"DGS5">>,
     data    |-> [c \in {"DGS5"} |-> [i \in 1..n |-> 430]]]

InitCharts ==
    /\ raw = [s \in Sids |-> NoFile]
    /\ pc = "derived"
    /\ merged = EmptyDF
    /\ \E n \in 0..MaxObs :
          \/ \E inactive \in {0, Threshold} :
                \E usrec \in [1..n -> {NaN, inactive, 1000}] :
                   enriched = IndicatorTable(usrec)
          \/ enriched = PlainTable(n)
    /\ spans = [y5 |-> <<>>, y20 |-> <<>>]
    /\ table = <<>>
    /\ view = NoView
    /\ exc = ""

NextCharts == ChartsMain

SpecCharts == InitCharts /\ [][NextCharts]_vars

----------------------------------------------------------------------------
(* Claims about the merge, checked under Spec *)

\* What load_series makes of the i-th configured series.
Source(i) == load_series(SERIES[i])
Normalizes(i) == Source(i).exc = "" /\ ~Source(i).none
NormalizedSources == {i \in DOMAIN SERIES : Normalizes(i)}
SeriesOfColumn(c) == CHOOSE i \in DOMAIN SERIES : SERIES[i].col = c

\* merge_all has run and raised / returned.
MergeRaised == pc = "failed" /\ exc \in {"RuntimeError", "EmptyDataError", "InvalidIndexError"}
MergeReturned == pc = "merged"

\* The calendar dates the raw rows of the normalized sources spell.
SourceDates ==
    UNION {Range(Source(i).val.index) : i \in NormalizedSources} \ {NaT}

StrictlyAscending(idx) ==
    \A p \in 1..(Len(idx) - 1) :
        idx[p] # NaT /\ idx[p + 1] # NaT /\ idx[p] < idx[p + 1]

\* C1: the Panel merge_all returns has a strictly ascending date index
\* without duplicates that is exactly the union of the sources' dates.
C1_PanelIndexIsSortedUnion ==
    MergeReturned =>
        /\ StrictlyAscending(merged.index)
        /\ ~has_duplicates(merged.index)
        /\ Range(merged.index) = SourceDates

\* The same on runs where every raw date parses: there the claim holds.
NoBadDates == \A i \in NormalizedSources : NaT \notin Range(Source(i).val.index)
PanelIndexIsSortedUnionOfParsedDates ==
    (MergeReturned /\ NoBadDates) =>
        /\ StrictlyAscending(merged.index)
        /\ ~has_duplicates(merged.index)
        /\ Range(merged.index) = SourceDates

\* The column's most recent non-missing source value at a date <= d, NaN
\* when there is none.
LastObservation(src, c, d) ==
    LET prior == {i \in DOMAIN src.index :
                    src.index[i] # NaT /\ src.index[i] <= d /\ src.data[c][i] # NaN}
    IN  IF prior = {} THEN NaN
        ELSE src.data[c][CHOOSE i \in prior :
                            \A j \in prior : src.index[j] <= src.index[i]]

\* Panel row p of column c is dated and has no direct observation in c's
\* source.
Undirect(c, p) ==
    /\ merged.index[p] # NaT
    /\ merged.index[p] \notin Range(Source(SeriesOfColumn(c)).val.index)

\* C2: on every Panel date where a column's source has no direct
\* observation, the Panel holds the column's most recent non-missing value
\* at an earlier date, and is missing when there is none (no back-fill).
C2_ForwardFill ==
    MergeReturned =>
        \A c \in Range(merged.columns) : \A p \in DOMAIN merged.index :
            Undirect(c, p) =>
                merged.data[c][p] =
                    LastObservation(Source(SeriesOfColumn(c)).val, c, merged.index[p])

\* A Panel with a carried-forward value and, before a column's first
\* observation, a missing one.
C2_Witness ==
    /\ MergeReturned
    /\ \E c \in Range(merged.columns) : \E p \in DOMAIN merged.index :
          Undirect(c, p) /\ merged.data[c][p] # NaN
    /\ \E c \in Range(merged.columns) : \E p \in DOMAIN merged.index :
          Undirect(c, p) /\ merged.data[c][p] = NaN
                         /\ \E q \in DOMAIN merged.index :
                               q > p /\ merged.data[c][q] # NaN

\* C3: merge_all raises the no-sources error, and returns no Panel, when
\* load_series yields no series for every source; it returns a Panel and
\* does not raise when at least one source normalizes.
C3_RaisesIffNoSource ==
    (MergeRaised \/ MergeReturned) =>
        /\ (\A i \in DOMAIN SERIES : Source(i) = RetNone)
              => (MergeRaised /\ exc = "RuntimeError" /\ merged = EmptyDF)
        /\ NormalizedSources # {} => MergeReturned

CannotNormalize(f) ==
    \/ f.kind \in {"nofile", "unparseable"}
    \/ f.kind = "csv" /\ Len(f.header) < 2

\* C4: for a source that cannot be normalized (missing file, unparseable
\* table, fewer than two columns) load_series reports no series, and the
\* merge completes with exactly the columns of the other sources.
C4_UnusableSourceIsSkipped ==
    (MergeRaised \/ MergeReturned) =>
        \A i \in DOMAIN SERIES :
            CannotNormalize(raw[SERIES[i].sid]) =>
                /\ Source(i) = RetNone
                /\ (\E j \in DOMAIN SERIES : ~CannotNormalize(raw[SERIES[j].sid]))
                     => /\ MergeReturned
                        /\ Range(merged.columns) =
                             {SERIES[j].col : j \in {k \in DOMAIN SERIES :
                                 ~CannotNormalize(raw[SERIES[k].sid])}}

\* C10: load_series drops every row whose date does not parse: no row of a
\* returned series, and so none of the Panel, is keyed by an undefined date,
\* and such a row is not fatal.
C10_UnparsableRowsAreDropped ==
    (MergeRaised \/ MergeReturned) =>
        /\ \A i \in NormalizedSources : NaT \notin Range(Source(i).val.index)
        /\ MergeReturned => NaT \notin Range(merged.index)
        /\ ~(MergeRaised /\ exc = "InvalidIndexError")

----------------------------------------------------------------------------
(* Claims about add_derived, checked under SpecDerive *)

Derived == pc = "derived"

ArithmeticColumns == <<
    <<"HY_IG_SPREAD", "HY_OAS", "IG_OAS">>,
    <<"BAA_10Y_SPREAD", "BAA_YIELD", "DGS10">>,
    <<"TWOS_TENS", "DGS10", "DGS2">> >>

\* C5: add_derived never raises on a Panel that lacks input columns, and
\* each arithmetic derived column is in the output exactly when both its
\* inputs are in the Panel, and is then their row-by-row difference.
C5_DerivedIffInputs ==
    /\ pc # "failed"
    /\ Derived =>
         \A k \in DOMAIN ArithmeticColumns :
            LET name == ArithmeticColumns[k][1]
                a    == ArithmeticColumns[k][2]
                b    == ArithmeticColumns[k][3]
            IN  /\ name \in Range(enriched.columns)
                      <=> {a, b} \subseteq Range(merged.columns)
                /\ name \in Range(enriched.columns) =>
                      \A i \in DOMAIN merged.index :
                         enriched.data[name][i] =
                            IF merged.data[a][i] = NaN \/ merged.data[b][i] = NaN
                            THEN NaN
                            ELSE merged.data[a][i] - merged.data[b][i]

\* HY_OAS without IG_OAS gives no HY_IG_SPREAD, next to a 2s10s column that
\* holds a difference.
C5_Witness ==
    /\ Derived
    /\ "HY_OAS" \in Range(merged.columns)
    /\ "IG_OAS" \notin Range(merged.columns)
    /\ "HY_IG_SPREAD" \notin Range(enriched.columns)
    /\ "TWOS_TENS" \in Range(enriched.columns)
    /\ \E i \in DOMAIN enriched.index :
          /\ enriched.data["TWOS_TENS"][i] # NaN
          /\ enriched.data["TWOS_TENS"][i] =
                merged.data["DGS10"][i] - merged.data["DGS2"][i]

\* The non-missing rows of s among the 90 rows ending at and including i.
WindowRows(s, i) == {j \in (IF i > 90 THEN i - 89 ELSE 1)..i : s[j] # NaN}
\* The population variance over them is zero: they all hold one value.
ZeroVariance(s, i) == \A j, k \in WindowRows(s, i) : s[j] = s[k]

\* C6: the rolling z-score of a whitelisted column is missing on every row
\* whose 90-row trailing window holds fewer than 30 non-missing values or
\* has zero population variance (so on every row of a constant column).
C6_ZScoreUndefined ==
    Derived =>
        \A k \in DOMAIN ZWhitelist :
            ZWhitelist[k] \in Range(enriched.columns) =>
                LET s == enriched.data[ZWhitelist[k]]
                    z == enriched.data[ZName(ZWhitelist[k])]
                IN  \A i \in DOMAIN s :
                       (Cardinality(WindowRows(s, i)) < 30 \/ ZeroVariance(s, i))
                          => z[i].kind = "nan"

\* One column with: 29 values in the window (missing), a full window of
\* one value after a change (missing), and a defined z-score.
C6_Witness ==
    /\ Derived
    /\ "IG_OAS" \in Range(enriched.columns)
    /\ LET s == enriched.data["IG_OAS"]
           z == enriched.data["IG_OAS_Z90"]
       IN  /\ \E i \in DOMAIN s : /\ Cardinality(WindowRows(s, i)) = 29
                                  /\ ~ZeroVariance(s, i)
                                  /\ z[i].kind = "nan"
           /\ \E i \in DOMAIN s : /\ i > 90
                                  /\ Cardinality(WindowRows(s, i)) = 90
                                  /\ ZeroVariance(s, i)
                                  /\ s[1] # s[i]
                                  /\ z[i].kind = "nan"
           /\ \E i \in DOMAIN s : /\ Cardinality(WindowRows(s, i)) = 30
                                  /\ z[i].kind = "num"

----------------------------------------------------------------------------
(* Claims about recession_spans, checked under SpecCharts *)

Charted == pc = "charted"

HasIndicator == "USREC" \in Range(enriched.columns)
Indicator == enriched.data["USREC"]

\* The rows that hold an observation, and those of them that are active.
Observed == {p \in DOMAIN enriched.index : Indicator[p] # NaN}
IsActive(p) == Indicator[p] > 500

\* An active observation whose previous observation, if any, is inactive.
RunStarts ==
    {p \in Observed :
        /\ IsActive(p)
        /\ \A q \in Observed :
              (q < p /\ \A r \in Observed : ~(q < r /\ r < p)) => ~IsActive(q)}

\* The first inactive observation after p, else the last observation.
RunEnd(p) ==
    LET later == {q \in Observed : q > p /\ ~IsActive(q)}
    IN  IF later # {} THEN Min(later) ELSE Max(Observed)

\* C7: recession_spans returns, in order, one interval per maximal run of
\* active observations: from the run's first date to the date of the first
\* inactive observation after it, or to the last date when the series ends
\* active; start <= end; [0,0,1,1,1,0,1,0] gives [(d3,d6),(d7,d8)] and
\* [0,1,1] gives [(d2,d3)].
C7_OneIntervalPerRun ==
    (Charted /\ HasIndicator) =>
        LET got == spans.y5
            d == enriched.index
        IN  /\ Len(got) = Cardinality(RunStarts)
            /\ \A p \in RunStarts :
                  got[Cardinality({q \in RunStarts : q <= p})]
                     = <<d[p], d[RunEnd(p)]>>
            /\ \A k \in DOMAIN got : got[k][1] <= got[k][2]
            /\ Indicator = <<0, 0, 1000, 1000, 1000, 0, 1000, 0>>
                  => got = << <<d[3], d[6]>>, <<d[7], d[8]>> >>
            /\ Indicator = <<0, 1000, 1000>> => got = << <<d[2], d[3]>> >>

C7_Witness ==
    /\ Charted /\ HasIndicator
    /\ Indicator = <<0, 0, 1000, 1000, 1000, 0, 1000, 0>>
    /\ spans.y5 = << <<20240303, 20240306>>, <<20240307, 20240308>> >>

\* C8: a row whose indicator is missing is absent from the sequence: it
\* opens and closes nothing and its date is no interval's start or end; an
\* empty or all-missing indicator, or no indicator column, gives no
\* interval and no error.
C8_MissingRowsAreAbsent ==
    /\ pc # "failed"
    /\ Charted =>
         /\ HasIndicator =>
               /\ \A k \in DOMAIN spans.y5 :
                     \E p, q \in Observed :
                        spans.y5[k] = <<enriched.index[p], enriched.index[q]>>
               /\ spans.y5 = recession_spans(take_rows(enriched, Observed))
         /\ (~HasIndicator \/ Observed = {}) => spans.y5 = <<>>

\* Active, missing, active, inactive: one interval, from the first row to
\* the fourth.
C8_Witness ==
    /\ Charted /\ HasIndicator
    /\ Indicator = <<1000, NaN, 1000, 0>>
    /\ spans.y5 = << <<20240301, 20240304>> >>

----------------------------------------------------------------------------
(* Claims about build_current_table, checked under Spec *)

\* The Panel's latest date and the row that holds it.
EndDate == index_max(enriched.index)
EndRow == CHOOSE p \in DOMAIN enriched.index : enriched.index[p] = EndDate
\* The non-missing values of a column on rows dated >= end - 1 year.
YearValues(col) ==
    {enriched.data[col][p] : p \in {q \in DOMAIN enriched.index :
        /\ enriched.index[q] # NaT
        /\ enriched.index[q] >= minus_years(EndDate, 1)
        /\ enriched.data[col][q] # NaN}}

\* The row of a table for a metric label.
TableRow(t, label) == t[CHOOSE k \in DOMAIN t : t[k].Metric = label]

ReportsWindow(t, metrics) ==
    \A m \in DOMAIN metrics :
        LET col == metrics[m][1]
        IN  col \in Range(enriched.columns) =>
              /\ \E k \in DOMAIN t : t[k].Metric = metrics[m][2]
              /\ LET row == TableRow(t, metrics[m][2])
                 IN  /\ row.Current = enriched.data[col][EndRow]
                     /\ row.High = IF YearValues(col) = {} THEN NaN
                                   ELSE Max(YearValues(col))
                     /\ row.Low = IF YearValues(col) = {} THEN NaN
                                  ELSE Min(YearValues(col))

\* C9: for the year ending at the Panel's latest date, build_current_table
\* (of charts.py and of the dashboard) reports for each present metric the
\* value at the end date and the largest and smallest non-missing value on
\* rows dated >= end - 1 year.
C9_TableReportsTrailingYear ==
    /\ pc = "charted" => ReportsWindow(table, ChartMetrics)
    /\ (pc = "shown" /\ view.unit = "Percent") => ReportsWindow(view.table, AppMetrics)

\* The same on Panels whose every row is dated: there the claim holds.
TableReportsTrailingYearOfDatedPanel ==
    NaT \notin Range(enriched.index) => C9_TableReportsTrailingYear

\* 1.0 at d-400, 3.0 at d-10, 5.0 at d0: current 5.0, high 5.0, low 3.0.
TableExample ==
    /\ pc = "charted"
    /\ "IG_OAS" \in Range(enriched.columns)
    /\ enriched.index = <<20230209, 20240305, 20240315>>
    /\ enriched.data["IG_OAS"] = <<1000, 3000, 5000>>
    /\ TableRow(table, "IG OAS") =
          [Metric |-> "IG OAS", Current |-> 5000, High |-> 5000, Low |-> 3000]

----------------------------------------------------------------------------
(* merge_all over the sources in another order *)

RECURSIVE load_frames_in(_, _)
\* The loop of merge_all over series[1..k], series standing for SERIES.
load_frames_in(series, k) ==
    IF k = 0 THEN [exc |-> "", val |-> <<>>]
    ELSE LET before == load_frames_in(series, k - 1)
         IN  IF before.exc # "" THEN before
             ELSE LET df == load_series(series[k])
                  IN  IF df.exc # "" THEN [exc |-> df.exc, val |-> <<>>]
                      ELSE IF df.none THEN before
                      ELSE [exc |-> "", val |-> Append(before.val, df.val)]

\* merge_all with the list series in the place of SERIES.
merge_all_in(series) ==
    LET loaded == load_frames_in(series, Len(series))
        frames == loaded.val
    IN
    IF loaded.exc # "" THEN Raised(loaded.exc)
    ELSE IF frames = <<>> THEN Raised("RuntimeError")
    ELSE LET joined == concat(frames)
         IN  IF joined.exc # "" THEN joined
             ELSE Returned(ffill(sort_index(joined.val)))

\* The orders the sources are supplied in: as configured, back to front,
\* and with the first source moved to the end.
Reversed(s) == [i \in 1..Len(s) |-> s[Len(s) + 1 - i]]
Rotated(s) == IF s = <<>> THEN s ELSE Append(Tail(s), Head(s))
SuppliedOrders == {SERIES, Reversed(SERIES), Rotated(SERIES)}

\* compute_series.main, first line, with the sources in a supplied order.
MergeSupplied ==
    /\ pc = "start"
    /\ \E series \in SuppliedOrders :
          LET r == merge_all_in(series)
          IN  IF r.exc # ""
              THEN /\ pc' = "failed"
                   /\ exc' = r.exc
                   /\ merged' = merged
              ELSE /\ pc' = "merged"
                   /\ exc' = exc
                   /\ merged' = r.val
    /\ UNCHANGED <<raw, enriched, spans, table, view>>

InitOrder == Init
NextOrder == MergeSupplied \/ AddDerived
SpecOrder == InitOrder /\ [][NextOrder]_vars

----------------------------------------------------------------------------
(* Claims about the order of the sources, checked under SpecOrder *)

\* merge then derive on the sources in the configured order.
ConfiguredPanel == add_derived(merge_all.val)

\* Two Panels with the same date index, the same set of columns and the
\* same values in every column.
SameContent(p, q) ==
    /\ p.index = q.index
    /\ Range(p.columns) = Range(q.columns)
    /\ \A c \in Range(p.columns) : p.data[c] = q.data[c]

\* C11 as stated: the Panel of merge then derive is identical, column
\* sequence included, whatever order the sources are supplied in.
C11_PanelIdenticalInAnyOrder ==
    Derived => /\ merge_all.exc = ""
               /\ enriched = ConfiguredPanel.val

\* C11: whatever order the sources are supplied in, merge then derive
\* gives a Panel with the same date index, the same set of columns and the
\* same values in every column; merge_all raises in one order exactly when
\* it raises in every order.
C11_PanelSameContentInAnyOrder ==
    /\ Derived => /\ merge_all.exc = ""
                  /\ SameContent(enriched, ConfiguredPanel.val)
    /\ (pc = "failed") => merge_all.exc = exc

\* HY supplied before IG: the two base columns swap places, the rows and
\* the values (a carried-forward one among them) are those of the
\* configured order.
C11_Witness ==
    /\ Derived
    /\ merged.columns = <<"HY_OAS", "IG_OAS">>
    /\ merge_all.val.columns = <<"IG_OAS", "HY_OAS">>
    /\ Len(enriched.index) >= 2
    /\ "HY_IG_SPREAD" \in Range(enriched.columns)
    /\ \E p \in DOMAIN merged.index : Undirect("HY_OAS", p) /\ merged.data["HY_OAS"][p] # NaN
    /\ SameContent(enriched, ConfiguredPanel.val)

----------------------------------------------------------------------------
(* add_derived and convert_units on objects: which table a write lands in *)

\* The tables in memory are a sequence of DataFrames; a reference is a
\* position in it.  A call returns [exc, heap, ret]: the tables after it and
\* the reference it returns.

\* No copy: the name is bound to the table it was given.
alias(heap, ref) == [heap |-> heap, ref |-> ref]

\* DataFrame.copy(): a new table with the same rows, columns and values.
copy(heap, ref) == [heap |-> Append(heap, heap[ref]), ref |-> Len(heap) + 1]

\* add_derived(df): out = df.copy(), every later assignment is to out.
add_derived_on(heap, df) ==
    LET c   == copy(heap, df)
        out == c.ref
        r   == add_derived(c.heap[out])
    IN  [exc  |-> r.exc,
         heap |-> IF r.exc # "" THEN c.heap ELSE [c.heap EXCEPT ![out] = r.val],
         ret  |-> out]

\* convert_units(df, unit): df itself for "Percent"; else scaled =
\* df.copy(), every assignment is to scaled.
convert_units_on(heap, df, unit) ==
    IF unit = "Percent" THEN [exc |-> "", heap |-> heap, ret |-> df]
    ELSE LET c      == copy(heap, df)
             scaled == c.ref
         IN  [exc  |-> "",
              heap |-> [c.heap EXCEPT ![scaled] = convert_units(c.heap[scaled], unit)],
              ret  |-> scaled]

\* enriched = add_derived(merged): merged is the table the caller still
\* holds after the call.
DeriveCall ==
    /\ pc = "merged"
    /\ LET r == add_derived_on(<<merged>>, 1)
       IN  /\ merged' = r.heap[1]
           /\ IF r.exc # ""
              THEN /\ pc' = "failed"
                   /\ exc' = r.exc
                   /\ enriched' = enriched
              ELSE /\ pc' = "derived"
                   /\ exc' = exc
                   /\ enriched' = r.heap[r.ret]
    /\ UNCHANGED <<raw, spans, table, view>>

\* sub_units = convert_units(df, unit) on the Panel: enriched is the table
\* the caller still holds after the call.
ConvertCall ==
    /\ pc = "derived"
    /\ \E unit \in {"Percent", "bps"} :
          LET r == convert_units_on(<<enriched>>, 1, unit)
          IN  /\ enriched' = r.heap[1]
              /\ view' = [NoView EXCEPT !.unit = unit,
                                        !.sub_units = r.heap[r.ret]]
    /\ pc' = "shown"
    /\ UNCHANGED <<raw, merged, spans, table, exc>>

InitFrame == InitDerive
NextFrame == DeriveCall \/ ConvertCall
SpecFrame == InitFrame /\ [][NextFrame]_vars

----------------------------------------------------------------------------
(* Claims about the tables a call is given, checked under SpecFrame *)

\* Column c of q is column c of p times 100, missing where p is.
Scaled100(p, q, c) ==
    \A i \in DOMAIN p.index :
        q.data[c][i] = IF p.data[c][i] = NaN THEN NaN ELSE 100 * p.data[c][i]

\* C12: the table given to add_derived and the table given to
\* convert_units, for either unit, have every column and every value
\* unchanged after the call; the x100 scaling is only in the table
\* convert_units returns.
C12_InputsAreNotMutated ==
    [][/\ (pc = "merged" /\ pc' # "merged") => merged' = merged
       /\ (pc = "derived" /\ pc' = "shown") =>
             /\ enriched' = enriched
             /\ view'.unit = "Percent" => view'.sub_units = enriched
             /\ (view'.unit = "bps" /\ "IG_OAS" \in Range(enriched.columns)) =>
                   Scaled100(enriched, view'.sub_units, "IG_OAS")]_vars

\* After both calls in bps: the returned table holds 100 times a value the
\* Panel still holds, and the merged table still lacks the derived column
\* its copy was given.
C12_Witness ==
    /\ pc = "shown"
    /\ view.unit = "bps"
    /\ {"IG_OAS", "HY_IG_SPREAD"} \subseteq Range(enriched.columns)
    /\ "HY_IG_SPREAD" \notin Range(merged.columns)
    /\ \E i \in DOMAIN enriched.index :
          /\ enriched.data["IG_OAS"][i] # NaN
          /\ view.sub_units.data["IG_OAS"][i] = 100 * enriched.data["IG_OAS"][i]
          /\ view.sub_units.data["IG_OAS"][i] # enriched.data["IG_OAS"][i]

----------------------------------------------------------------------------
(* streamlit_app.main on its own: a forward-filled Panel with USREC *)

\* The date of the row k rows before the last: four rows inside the last
\* year, then one more inside each of the 3, 5 and 20 year windows, the
\* rest older than 20 years.
DateBack(k) ==
    CASE k = 0 -> 20240315
      [] k = 1 -> 20240215
      [] k = 2 -> 20240115
      [] k = 3 -> 20231215
      [] k = 4 -> 20220315
      [] k = 5 -> 20200315
      [] k = 6 -> 20100315
      [] OTHER -> 19900315 - (k - 7) * 10000

YearsIndex(n) == [i \in 1..n |-> DateBack(n - i)]

\* The processed table: USREC as merge_all's ffill leaves it, on rows that
\* other sources dated.
FilledTable(usrec) ==
    ffill([index   |-> YearsIndex(Len(usrec)),
           columns |-> <<"USREC">>,
           data    |-> [c \in {"USREC"} |-> usrec]])

InitShade ==
    /\ raw = [s \in Sids |-> NoFile]
    /\ pc = "derived"
    /\ merged = EmptyDF
    /\ \E n \in 0..MaxObs : \E inactive \in {0, Threshold} :
          \E usrec \in [1..n -> {NaN, inactive, 1000}] :
             enriched = FilledTable(usrec)
    /\ spans = [y5 |-> <<>>, y20 |-> <<>>]
    /\ table = <<>>
    /\ view = NoView
    /\ exc = ""

NextShade == Dashboard
SpecShade == InitShade /\ [][NextShade]_vars

----------------------------------------------------------------------------
(* Claims about the dashboard's shading, checked under SpecShade *)

\* The sub-range on display.
Sub == subset_by_range(enriched, view.range_label)

\* USREC is missing on a row only before its first observation.
MissingOnlyBeforeFirst(df) ==
    \A i, j \in DOMAIN df.index :
        (i < j /\ df.data["USREC"][i] # NaN) => df.data["USREC"][j] # NaN

\* C13: on every sub-range of a forward-filled Panel (USREC missing only
\* before its first observation, or on every row) the dashboard's inline
\* loop shades exactly the intervals charts.recession_spans returns.
C13_InlineShadingMatchesRecessionSpans ==
    (pc = "shown" /\ view.shade_recessions /\ MissingOnlyBeforeFirst(Sub)) =>
        view.shaded = recession_spans(Sub)

\* The last year of a longer Panel, USREC missing on its first row: one
\* interval closed by an inactive row.
C13_Witness ==
    /\ pc = "shown" /\ view.shade_recessions
    /\ view.range_label = "1Y"
    /\ Len(Sub.index) < Len(enriched.index)
    /\ Sub.data["USREC"] = <<NaN, 1000, 1000, 0>>
    /\ view.shaded = << <<20240115, 20240315>> >>

\* A sub-range where USREC is missing on every row: nothing is shaded.
AllMissingSubRange ==
    /\ pc = "shown" /\ view.shade_recessions
    /\ Len(Sub.index) >= 2
    /\ \A i \in DOMAIN Sub.index : Sub.data["USREC"][i] = NaN
    /\ \E i \in DOMAIN enriched.index : enriched.data["USREC"][i] = NaN
    /\ view.shaded = <<>>

====
